---- MODULE Spec2Model ----
(***************************************************************************)
(* qmexmut: the proxmox hookscript that, before a VM starts, shuts down    *)
(* every running VM whose passed-through host resources overlap with it.   *)
(*                                                                         *)
(* Text is a sequence of one-character strings, so that the regular        *)
(* expressions and the label rule act on the characters of a line as the   *)
(* Go code does.                                                           *)
(***************************************************************************)
EXTENDS Integers, Sequences, FiniteSets, TLC

(***************************************************************************)
(* Bounds of the model.                                                    *)
(***************************************************************************)
\* number of VMs defined on the host (ids 101, 102, ...)
MaxVMs == 3
\* number of lines of one VM's "qm config" output
MaxConfLines == 2

(***************************************************************************)
(* Text helpers (package strings / regexp as used by the program).         *)
(***************************************************************************)
\* a nil error; every error is a sequence of strings
nil == <<>>

Min(S) == CHOOSE x \in S : \A y \in S : x <= y
Max(S) == CHOOSE x \in S : \A y \in S : x >= y

\* Go's \s class: [\t\n\f\r ]
isSpace(c) == c \in {" ", "\t"}

\* Go's \w class, over the characters the model uses
isWord(c) == c \notin {" ", "\t", ",", ":", "=", "-", ".", "(", ")", "/"}

\* s[from..] (empty when from is past the end)
Tail_(s, from) == SubSeq(s, from, Len(s))

\* strings.HasPrefix
HasPrefix(s, p) == Len(s) >= Len(p) /\ SubSeq(s, 1, Len(p)) = p

\* strings.IndexByte, 0-based, -1 when absent
IndexByte(s, c) ==
    IF \E i \in 1..Len(s) : s[i] = c
    THEN Min({i \in 1..Len(s) : s[i] = c}) - 1
    ELSE -1

AllSpace(s, a, b) == \A k \in a..b : isSpace(s[k])
AllNonSpace(s, a, b) == \A k \in a..b : ~isSpace(s[k])

(***************************************************************************)
(* keyValPat = (.+?):\s*(.+)                                               *)
(* Leftmost-first matching: the key is the shortest non-empty prefix that  *)
(* is followed by a colon with something after it; \s* is greedy but gives *)
(* back one character when nothing else is left for (.+).                  *)
(***************************************************************************)
\* positions j of a colon that ends group 1 of a match starting at i
KeyValColons(s, i) == {j \in (i + 1)..(Len(s) - 1) : s[j] = ":"}

keyValPat(s) ==
    LET starts == {i \in 1..Len(s) : KeyValColons(s, i) # {}}
    IN  IF starts = {} THEN <<>>
        ELSE LET i == Min(starts)
                 j == Min(KeyValColons(s, i))
                 \* greedy \s*: the longest run of spaces that leaves a character
                 ws == Max({e \in j..(Len(s) - 1) : AllSpace(s, j + 1, e)})
             IN  <<SubSeq(s, i, Len(s)), SubSeq(s, i, j - 1), Tail_(s, ws + 1)>>

(***************************************************************************)
(* usbHostPat = \bhost=([^,]+)                                             *)
(***************************************************************************)
HostLit == <<"h", "o", "s", "t", "=">>

UsbHostStarts(s) ==
    {p \in 1..Len(s) :
        /\ p + 5 <= Len(s)
        /\ SubSeq(s, p, p + 4) = HostLit
        /\ (p = 1 \/ ~isWord(s[p - 1]))
        /\ s[p + 5] # ","}

usbHostPat(s) ==
    IF UsbHostStarts(s) = {} THEN <<>>
    ELSE LET p == Min(UsbHostStarts(s))
             e == Max({k \in (p + 5)..Len(s) : \A m \in (p + 5)..k : s[m] # ","})
         IN  <<SubSeq(s, p, e), SubSeq(s, p + 5, e)>>

(***************************************************************************)
(* listPat = ([^\s]+)\s+(.+?)\s+(.+?)\s+                                   *)
(* Six atoms, each one or more characters of a class: 1 non-space, greedy; *)
(* 2, 4, 6 space, greedy; 3, 5 any character, lazy.  The match is the one  *)
(* a backtracking engine finds first: leftmost start, a greedy atom tried  *)
(* longest first, a lazy atom shortest first.                              *)
(***************************************************************************)
ListAtoms == 6
ListAtomGreedy(k) == k \in {1, 2, 4, 6}
ListAtomOK(k, c) ==
    IF k = 1 THEN ~isSpace(c) ELSE IF k \in {2, 4, 6} THEN isSpace(c) ELSE TRUE

NoMatch == [ok |-> FALSE, ends |-> <<>>]

RECURSIVE ListRunEnd(_, _, _)
\* the end of the longest run of atom k's class that starts at p
ListRunEnd(s, k, p) ==
    IF p + 1 <= Len(s) /\ ListAtomOK(k, s[p + 1]) THEN ListRunEnd(s, k, p + 1) ELSE p

RECURSIVE ListMatchAtoms(_, _, _), ListTryEnd(_, _, _, _)
\* atoms k..6 matched from position p on: the end position of each
ListMatchAtoms(s, k, p) ==
    IF k > ListAtoms THEN [ok |-> TRUE, ends |-> <<>>]
    ELSE IF p > Len(s) \/ ~ListAtomOK(k, s[p]) THEN NoMatch
    ELSE ListTryEnd(s, k, p, IF ListAtomGreedy(k) THEN ListRunEnd(s, k, p) ELSE p)

\* atom k from p to e, then the rest; on failure the next candidate end
ListTryEnd(s, k, p, e) ==
    IF e < p \/ e > Len(s) THEN NoMatch
    ELSE LET r == ListMatchAtoms(s, k + 1, e + 1)
         IN  IF r.ok THEN [ok |-> TRUE, ends |-> <<e>> \o r.ends]
             ELSE ListTryEnd(s, k, p, IF ListAtomGreedy(k) THEN e - 1 ELSE e + 1)

RECURSIVE ListFirstStart(_, _)
ListFirstStart(s, i) ==
    IF i > Len(s) THEN [start |-> 0, ends |-> <<>>]
    ELSE LET r == ListMatchAtoms(s, 1, i)
         IN  IF r.ok THEN [start |-> i, ends |-> r.ends] ELSE ListFirstStart(s, i + 1)

listPat(s) ==
    LET m == ListFirstStart(s, 1)
        e == m.ends
    IN  IF m.start = 0 THEN <<>>
        ELSE <<SubSeq(s, m.start, e[6]), SubSeq(s, m.start, e[1]),
               SubSeq(s, e[2] + 1, e[3]), SubSeq(s, e[4] + 1, e[5])>>

\* cmdMatcher.MatchText(i) / Match(i): group i, empty when there is none
MatchText(match, i) == IF i < Len(match) THEN match[i + 1] ELSE <<>>

(***************************************************************************)
(* The hypervisor as the hook sees it: the defined VMs, what "qm list"     *)
(* and "qm config <id>" print for them.                                    *)
(***************************************************************************)
VMs == 1..MaxVMs

Digits == <<"0", "1", "2", "3", "4", "5", "6", "7", "8", "9">>
Digit(i) == Digits[i + 1]

\* VM ids 101, 102, ... and names v1, v2, ...
IdOf(v) == <<"1", "0", Digit(v)>>
NameOf(v) == <<"v", Digit(v)>>
Ids == {IdOf(v) : v \in VMs}
VmOf(id) == CHOOSE v \in VMs : IdOf(v) = id

running == <<"r", "u", "n", "n", "i", "n", "g">>
stopped == <<"s", "t", "o", "p", "p", "e", "d">>
paused  == <<"p", "a", "u", "s", "e", "d">>
Statuses == {running, stopped, paused}

preStart  == "pre-start"
postStart == "post-start"
preStop   == "pre-stop"
postStop  == "post-stop"
Phases == {preStart, postStart, preStop, postStop, "bogus"}

\* the lines a VM's configuration can hold, in the key order qm prints them
ConfLine(k) ==
    CASE k = 1 -> <<"h", "o", "s", "t", "p", "c", "i", "0", ":", " ", "A", ",", "x">>
      [] k = 2 -> <<"h", "o", "s", "t", "p", "c", "i", "1", ":", " ", "A">>
      [] k = 3 -> <<"i", "d", "e", "2", ":", " ", "c", ",", "m", "=", "d">>
      [] k = 4 -> <<"u", "s", "b", "0", ":", " ", "h", "o", "s", "t", "=", "U">>
      [] k = 5 -> <<"u", "s", "b", "1", ":", " ", "s", "p", "i", "c", "e">>
ConfKeys == 1..5

RECURSIVE SeqOfSet(_)
\* the elements of a set of numbers as an ascending sequence
SeqOfSet(S) == IF S = {} THEN <<>> ELSE <<Min(S)>> \o SeqOfSet(S \ {Min(S)})

ConfOf(K) == LET ks == SeqOfSet(K) IN [i \in 1..Len(ks) |-> ConfLine(ks[i])]

\* every configuration of at most MaxConfLines lines
Configs == {ConfOf(K) : K \in {K \in SUBSET ConfKeys : Cardinality(K) <= MaxConfLines}}

\* two configurations used where the shutdown stage is explored
ConfPci == ConfOf({1})
ConfUsb == ConfOf({4})

ListHeader == <<" ", "V", "M", "I", "D", " ", "N", "A", "M", "E", " ",
                "S", "T", "A", "T", "U", "S", " ", "M", "E", "M">>
\* a first line that the record pattern does not match
OddHeader == <<"V", "M", "I", "D">>
ListLine(v, st) ==
    <<" ", " ">> \o IdOf(v) \o <<" ">> \o NameOf(v) \o <<" ", " ">> \o st
        \o <<" ", " ", "5", "1", "2">>

VARIABLES
    args,       \* positional arguments of the hook: <<vmid, phase>>
    dryRun,     \* the -dry-run flag
    defined,    \* the VMs defined on the host
    vmStatus,   \* VM -> status token "qm list" reports
    vmConfig,   \* VM -> lines "qm config" prints
    header,     \* the first line "qm list" prints
    listExit    \* the wait status "qm list" ends with by itself

world == <<args, dryRun, defined, vmStatus, vmConfig, header, listExit>>

\* what "qm list" prints: nothing without VMs, else a header and a line per VM
ListOutput ==
    LET vs == SeqOfSet(defined)
    IN  IF vs = <<>> THEN <<>>
        ELSE <<header>> \o [i \in 1..Len(vs) |-> ListLine(vs[i], vmStatus[vs[i]])]

\* what "qm config <id>" prints
ConfigOutput(id) == IF id \in Ids /\ VmOf(id) \in defined THEN vmConfig[VmOf(id)] ELSE <<>>

\* the output of a command, its length and its k-th line
Output(cmd) == IF cmd.name = "list" THEN ListOutput ELSE ConfigOutput(cmd.id)
NumLines(cmd) ==
    IF cmd.name = "list"
    THEN (IF defined = {} THEN 0 ELSE Cardinality(defined) + 1)
    ELSE Len(ConfigOutput(cmd.id))
LineAt(cmd, k) ==
    IF cmd.name = "list"
    THEN (IF k = 1 THEN header
          ELSE LET v == CHOOSE v \in defined : Cardinality({u \in defined : u < v}) = k - 2
               IN  ListLine(v, vmStatus[v]))
    ELSE ConfigOutput(cmd.id)[k]

(***************************************************************************)
(* labelHostResource: the label of a matched "key: value" line, empty when *)
(* the line declares no passed-through host resource.                      *)
(***************************************************************************)
hostpciPrefix == <<"h", "o", "s", "t", "p", "c", "i">>
usbPrefix == <<"u", "s", "b">>
hostpciLabel == <<"h", "o", "s", "t", "p", "c", "i", ":">>
hostusbLabel == <<"h", "o", "s", "t", "u", "s", "b", ":">>

\* variant: the hostpci value is not cut at its comma
labelHostResource_whole(match) ==
    LET name == MatchText(match, 1)
        value == MatchText(match, 2)
    IN  IF HasPrefix(name, hostpciPrefix) THEN hostpciLabel \o value
        ELSE IF HasPrefix(name, usbPrefix) /\ Len(usbHostPat(value)) > 0
        THEN hostusbLabel \o usbHostPat(value)[2]
        ELSE <<>>

labelHostResource(match) ==
    LET name == MatchText(match, 1)
        value == MatchText(match, 2)
        i == IndexByte(value, ",")
    IN  IF HasPrefix(name, hostpciPrefix)
        THEN hostpciLabel \o (IF i >= 0 THEN SubSeq(value, 1, i) ELSE value)
        ELSE IF HasPrefix(name, usbPrefix) /\ Len(usbHostPat(value)) > 0
        THEN hostusbLabel \o usbHostPat(value)[2]
        ELSE <<>>

(***************************************************************************)
(* Scan sessions: cmdScanner, cmdMatcher and cmdRecognizer are one record  *)
(* (the Go types embed one another).                                       *)
(*   proc     cmd.Process: 0 is nil, else the pid of the started command   *)
(*   scanner  csc.Scanner # nil                                            *)
(*   scanErr  what bufio.Scanner.Err() returns                             *)
(*   pos      lines of the output the bufio.Scanner has delivered          *)
(*   eof      the bufio.Scanner has seen the end of the output             *)
(*   state    cmd.ProcessState, set by cmd.Wait                            *)
(***************************************************************************)
NoSession ==
    [cmd |-> [name |-> "none", id |-> <<>>], pat |-> "none", proc |-> 0,
     scanner |-> FALSE, scanErr |-> nil, err |-> nil, pos |-> 0,
     eof |-> FALSE, match |-> <<>>, label |-> <<>>, state |-> "none"]

\* matchCommand(exec.Command("qm", "list"), listPat)
matchCommand(cmd, pat) == [NoSession EXCEPT !.cmd = cmd, !.pat = pat]

\* recognizeCommand(exec.Command("qm", "config", id), keyValPat, labelHostResource)
recognizeCommand(cmd, pat) == [NoSession EXCEPT !.cmd = cmd, !.pat = pat]

QmList == [name |-> "list", id |-> <<>>]
QmConfig(id) == [name |-> "config", id |-> id]

FindSubmatch(pat, line) == IF pat = "listPat" THEN listPat(line) ELSE keyValPat(line)

(***************************************************************************)
(* What the operating system does to one Scan call: whether the pipe can   *)
(* be made and the command started, and which read (if any) fails.         *)
(*   start   "ok", "pipe" (StdoutPipe fails) or "start" (Start fails)      *)
(*   failAt  the line whose read fails, 0 when none does                   *)
(*   pid     the pid a started command gets                                *)
(***************************************************************************)
\* bufio.Scanner.Scan
ScannerScan(s, env) ==
    IF s.scanErr # nil \/ s.eof THEN [s |-> s, ok |-> FALSE]
    ELSE IF env.failAt = s.pos + 1
    THEN [s |-> [s EXCEPT !.scanErr = <<"read error">>], ok |-> FALSE]
    ELSE IF s.pos >= NumLines(s.cmd)
    THEN [s |-> [s EXCEPT !.eof = TRUE], ok |-> FALSE]
    ELSE [s |-> [s EXCEPT !.pos = s.pos + 1], ok |-> TRUE]

\* variant: a recorded error does not stop a later Scan
cmdScannerScan_retry(s, env) ==
    IF s.proc = 0
    THEN IF ~s.scanner /\ env.start = "pipe"
         THEN [s |-> [s EXCEPT !.err = <<"pipe failed">>], ok |-> FALSE]
         ELSE IF env.start = "start"
         THEN [s |-> [s EXCEPT !.scanner = TRUE, !.err = <<"start failed">>], ok |-> FALSE]
         ELSE ScannerScan([s EXCEPT !.scanner = TRUE, !.proc = env.pid, !.err = nil], env)
    ELSE ScannerScan(s, env)

\* variant: every Scan starts the command
cmdScannerScan_restart(s, env) ==
    IF s.err # nil THEN [s |-> s, ok |-> FALSE]
    ELSE ScannerScan([s EXCEPT !.scanner = TRUE, !.proc = env.pid], env)

\* cmdScanner.Scan
cmdScannerScan(s, env) ==
    IF s.err # nil THEN [s |-> s, ok |-> FALSE]
    ELSE IF s.proc = 0
    THEN IF ~s.scanner /\ env.start = "pipe"
         THEN [s |-> [s EXCEPT !.err = <<"pipe failed">>], ok |-> FALSE]
         ELSE IF env.start = "start"
         THEN [s |-> [s EXCEPT !.scanner = TRUE, !.err = <<"start failed">>], ok |-> FALSE]
         ELSE ScannerScan([s EXCEPT !.scanner = TRUE, !.proc = env.pid], env)
    ELSE IF ~s.scanner THEN [s |-> s, ok |-> FALSE]
    ELSE ScannerScan(s, env)

RECURSIVE cmdMatcherLoop(_, _)
cmdMatcherLoop(s, env) ==
    LET r == cmdScannerScan(s, env)
    IN  IF ~r.ok THEN r
        ELSE LET m == FindSubmatch(r.s.pat, LineAt(r.s.cmd, r.s.pos))
             IN  IF m # <<>> THEN [s |-> [r.s EXCEPT !.match = m], ok |-> TRUE]
                 ELSE cmdMatcherLoop(r.s, env)

\* cmdMatcher.Scan
cmdMatcherScan(s, env) == cmdMatcherLoop([s EXCEPT !.match = <<>>], env)

\* variant: the first line the pattern matches ends the Scan, labelled or not
cmdRecognizerLoop_first(s, env) ==
    LET r == cmdMatcherScan(s, env)
    IN  IF ~r.ok THEN r ELSE [s |-> [r.s EXCEPT !.label = labelHostResource(r.s.match)],
                               ok |-> TRUE]

RECURSIVE cmdRecognizerLoop(_, _)
cmdRecognizerLoop(s, env) ==
    LET r == cmdMatcherScan(s, env)
    IN  IF ~r.ok THEN r
        ELSE LET l == labelHostResource(r.s.match)
             IN  IF l # <<>> THEN [s |-> [r.s EXCEPT !.label = l], ok |-> TRUE]
                 ELSE cmdRecognizerLoop([r.s EXCEPT !.label = l], env)

\* cmdRecognizer.Scan
cmdRecognizerScan(s, env) == cmdRecognizerLoop([s EXCEPT !.label = <<>>], env)

\* cmdScanner.Err: the session after the call and the error returned
cmdScannerErr(s) ==
    IF s.err = nil /\ s.scanner /\ s.scanErr # nil
    THEN [s |-> [s EXCEPT !.err = <<"io error">> \o s.scanErr],
          err |-> <<"io error">> \o s.scanErr]
    ELSE [s |-> s, err |-> s.err]

\* variant: death by the kill signal is not told apart from a failure
isKillError_never(status) == FALSE

\* variant: every wait error is taken for the death by the kill signal
isKillError_always(status) == TRUE

\* isKillError(werr), on the wait status of the reaped command
isKillError(status) == status = "killed"

\* the error cmd.Wait returns for a wait status
WaitError(status) == IF status = "exit0" THEN nil ELSE <<status>>

\* Process.Kill then cmd.Wait: the wait status of the reaped command.  The kill
\* races with the command: one still running dies of the signal ("killed"), one
\* that has already ended by itself keeps its exit status ("exit0", "exit1");
\* a second cmd.Wait only reports that Wait was already called ("waited")
KillWait(outcome) == outcome

\* fmt.Errorf("command %q failed: %w", csc.cmd.Args, err)
CommandFailed(cmd, err) == <<"command failed", cmd.name>> \o cmd.id \o err

(***************************************************************************)
(* cmdScanner.Cleanup(errp): kill and reap the command when it was         *)
(* started, keep the first error, and hand it to the caller's error slot   *)
(* when that is still empty.  kids is the set of child processes that are  *)
(* started and not reaped, outcome how the kill's race with the command    *)
(* ends.                                                                   *)
(***************************************************************************)
\* variant: the exit status and the session's error overwrite what was there
Cleanup_overwrite(s, errp, kids, outcome) ==
    LET started == s.proc # 0
        status == IF started THEN KillWait(outcome) ELSE "none"
        werr == IF isKillError(status) THEN nil ELSE WaitError(status)
        s1 == IF ~started THEN s
              ELSE [s EXCEPT !.err = werr, !.state = IF s.state = "none" THEN status ELSE @]
        e2 == cmdScannerErr(s1)
    IN  [s |-> e2.s,
         errp |-> IF e2.err # nil THEN CommandFailed(s.cmd, e2.err) ELSE errp,
         kids |-> IF started THEN kids \ {s.proc} ELSE kids]

\* variant: the command is killed but left in the child table
Cleanup_noreap(s, errp, kids, outcome) ==
    LET started == s.proc # 0
        status == IF started THEN KillWait(outcome) ELSE "none"
        werr == IF isKillError(status) THEN nil ELSE WaitError(status)
        e1 == cmdScannerErr(s)
        state == IF s.state = "none" THEN status ELSE s.state
        s1 == IF ~started THEN s
              ELSE IF e1.err = nil THEN [e1.s EXCEPT !.err = werr, !.state = state]
              ELSE [e1.s EXCEPT !.state = state]
        e2 == cmdScannerErr(s1)
    IN  [s |-> e2.s,
         errp |-> IF e2.err # nil /\ errp = nil THEN CommandFailed(s.cmd, e2.err) ELSE errp,
         kids |-> kids]

Cleanup(s, errp, kids, outcome) ==
    LET started == s.proc # 0
        status == IF started THEN KillWait(outcome) ELSE "none"
        werr == IF isKillError(status) THEN nil ELSE WaitError(status)
        e1 == cmdScannerErr(s)
        state == IF s.state = "none" THEN status ELSE s.state
        s1 == IF ~started THEN s
              ELSE IF e1.err = nil THEN [e1.s EXCEPT !.err = werr, !.state = state]
              ELSE [e1.s EXCEPT !.state = state]
        e2 == cmdScannerErr(s1)
    IN  [s |-> e2.s,
         errp |-> IF e2.err # nil /\ errp = nil THEN CommandFailed(s.cmd, e2.err) ELSE errp,
         kids |-> IF started THEN kids \ {s.proc} ELSE kids]

(***************************************************************************)
(* The hook process.                                                       *)
(***************************************************************************)
VARIABLES
    pc,         \* where the main goroutine is
    result,     \* the error runHook returns, once it has returned
    rec,        \* the cmdRecognizer of hostResources / sharesHostResources
    cmm,        \* the cmdMatcher of mutuals (qm list)
    children,   \* the pids of the started, not yet reaped scan commands
    nStarted,   \* scan commands started so far (the last pid given out)
    nReaped,    \* scan commands reaped so far
    reses,      \* hostResources: the labels gathered so far
    res,        \* mutuals: the target's resource set
    hasAny,     \* sharesHostResources: its first result
    rerr,       \* the error result of the running (shares)hostResources call
    mutualIds,  \* mutuals: the records gathered so far
    mutualRecs, \* stopMutuals: what mutuals returned
    merr,       \* stopMutuals: the error mutuals returned
    mi,         \* stopMutuals: records of mutualRecs handled by the loop
    tasks,      \* the goroutines of the errgroup
    gerr,       \* errgroup: g.err
    firstFail,  \* the task whose error reached errOnce.Do first, 0 when none
    ret         \* a caller of one session on its own: its last call and what it got

prog == <<pc, result, rec, cmm, children, nStarted, nReaped, reses, res, hasAny, rerr,
          mutualIds, mutualRecs, merr, mi, tasks, gerr, firstFail, ret>>
vars == <<world, prog>>

notReturned == <<"not returned">>

\* the hook is only ever called for a VM that exists, and that VM is not running
Targets == VMs

\* the listing as "qm list" prints it when nothing goes wrong
PlainList == header = ListHeader /\ listExit = "exit0"

\* conflict detection: two VMs with any configurations
InitPair ==
    /\ PlainList
    /\ dryRun = FALSE
    /\ defined = {v \in VMs : v <= 2}
    /\ vmStatus = [v \in VMs |-> IF v = 1 THEN running ELSE stopped]
    /\ \E c1 \in Configs, c2 \in Configs :
        vmConfig = [v \in VMs |-> IF v = 1 THEN c1 ELSE IF v = 2 THEN c2 ELSE <<>>]
    /\ \E t \in defined : args = <<IdOf(t), preStart>>

\* shutdown stage: every VM defined, in any state, with one of two configurations
InitAll ==
    /\ PlainList
    /\ dryRun \in BOOLEAN
    /\ defined = VMs
    /\ vmConfig \in [VMs -> {ConfPci, ConfUsb}]
    /\ \E t \in Targets :
        /\ vmStatus \in [VMs -> Statuses]
        /\ vmStatus[t] = stopped
        /\ args = <<IdOf(t), preStart>>

\* dispatch: any arguments, on a host where every VM conflicts and runs
InitArgs ==
    /\ PlainList
    /\ dryRun \in BOOLEAN
    /\ defined = VMs
    /\ vmConfig = [v \in VMs |-> ConfPci]
    /\ vmStatus = [v \in VMs |-> running]
    /\ \E t \in Targets : \E ph \in Phases : args \in {<<IdOf(t), ph>>, <<IdOf(t)>>, <<>>}

\* the listing itself: any first line and any end of the command, on a host
\* where every VM holds the same device
InitList ==
    /\ header \in {ListHeader, OddHeader}
    /\ listExit \in {"exit0", "exit1"}
    /\ dryRun = FALSE
    /\ defined = VMs
    /\ vmStatus \in [VMs -> {running, stopped}]
    /\ vmConfig = [v \in VMs |-> ConfPci]
    /\ \E t \in Targets : args = <<IdOf(t), preStart>>

\* no call made yet
NoCall ==
    [call |-> "none", level |-> "scanner", ok |-> FALSE, err |-> nil, prev |-> NoSession]

\* the hook process when it starts
InitProg ==
    /\ ret = NoCall
    /\ pc = "runHook"
    /\ result = notReturned
    /\ rec = NoSession
    /\ cmm = NoSession
    /\ children = {}
    /\ nStarted = 0
    /\ nReaped = 0
    /\ reses = {}
    /\ res = {}
    /\ hasAny = FALSE
    /\ rerr = nil
    /\ mutualIds = <<>>
    /\ mutualRecs = <<>>
    /\ merr = nil
    /\ mi = 0
    /\ tasks = <<>>
    /\ gerr = nil
    /\ firstFail = 0

Init == (InitPair \/ InitAll \/ InitArgs) /\ InitProg

\* what the operating system may do to a Scan call on session s
\* (cmd.Wait closes the pipe: what is not yet read then fails to be read)
ScanEnvs(s) ==
    [start : IF s.proc = 0 /\ s.err = nil THEN {"ok", "pipe", "start"} ELSE {"ok"},
     failAt : (IF s.state = "none" THEN {0} ELSE {}) \cup ((s.pos + 1)..(NumLines(s.cmd) + 1)),
     pid : {nStarted + 1}]

\* how Cleanup's kill can end for session s
KillOutcomes(s) ==
    IF s.proc = 0 THEN {"none"}
    ELSE IF s.state # "none" THEN {"waited"}
    ELSE {"killed", "exit0", "exit1"}

\* the child table once a Scan call has turned session s into s2
Spawned(s, s2) ==
    IF s2.proc # s.proc THEN children \cup {s2.proc} ELSE children

Started(s, s2) == IF s2.proc # s.proc THEN nStarted + 1 ELSE nStarted

Reaped(s) == IF s.proc # 0 /\ s.state = "none" THEN nReaped + 1 ELSE nReaped

\* variant: stopMutuals goes on with the records gathered before the failure
MutualsFails_goOn(err) ==
    /\ merr' = err
    /\ mutualRecs' = mutualIds
    /\ result' = err
    /\ pc' = "spawn"

\* mutuals returns (nil, err) and stopMutuals, runHook return err
MutualsFails(err) ==
    /\ merr' = err
    /\ mutualRecs' = <<>>
    /\ result' = err
    /\ pc' = "exit"

\* variant: a phase that is not known is passed over like the no-op phases
noopPhase_any(phase) == TRUE

\* runHook: the cases of "switch phase" that do nothing
noopPhase(phase) == phase \in {postStart, preStop, postStop}

\* runHook
runHook ==
    /\ pc = "runHook"
    /\ IF Len(args) < 2
       THEN /\ result' = <<"usage">>
            /\ pc' = "exit"
            /\ rec' = rec
       ELSE IF args[2] = preStart
       THEN \* stopMutuals(vmid) -> mutuals(vmid) -> hostResources(vmid)
            /\ rec' = recognizeCommand(QmConfig(args[1]), "keyValPat")
            /\ pc' = "hr_scan"
            /\ result' = result
       ELSE IF noopPhase(args[2])
       THEN /\ result' = nil
            /\ pc' = "exit"
            /\ rec' = rec
       ELSE /\ result' = <<"got unknown phase", args[2]>>
            /\ pc' = "exit"
            /\ rec' = rec
    /\ UNCHANGED <<world, cmm, children, nStarted, nReaped, reses, res, hasAny, rerr,
                   mutualIds, mutualRecs, merr, mi, tasks, gerr, firstFail, ret>>

\* hostResources: one turn of "for rec.Scan() { reses[rec.Label()] = struct{}{} }"
hostResourcesScan ==
    /\ pc = "hr_scan"
    /\ \E env \in ScanEnvs(rec) :
        LET r == cmdRecognizerScan(rec, env)
        IN  /\ rec' = r.s
            /\ children' = Spawned(rec, r.s)
            /\ nStarted' = Started(rec, r.s)
            /\ IF r.ok
               THEN /\ reses' = reses \cup {r.s.label}
                    /\ pc' = pc
               ELSE /\ reses' = reses
                    /\ pc' = "hr_cleanup"
    /\ UNCHANGED <<world, result, cmm, nReaped, res, hasAny, rerr, mutualIds, mutualRecs,
                   merr, mi, tasks, gerr, firstFail, ret>>

\* hostResources: "return reses, nil" runs the deferred rec.Cleanup(&rerr)
hostResourcesCleanup ==
    /\ pc = "hr_cleanup"
    /\ \E outcome \in KillOutcomes(rec) :
        LET c == Cleanup(rec, nil, children, outcome)
        IN  /\ rec' = c.s
            /\ rerr' = c.errp
            /\ children' = c.kids
            /\ nReaped' = Reaped(rec)
    /\ pc' = "hr_ret"
    /\ UNCHANGED <<world, result, cmm, nStarted, reses, res, hasAny, mutualIds,
                   mutualRecs, merr, mi, tasks, gerr, firstFail, ret>>

\* mutuals: "res, err := hostResources(id)", then the list matcher is made
hostResourcesReturn ==
    /\ pc = "hr_ret"
    /\ rec' = NoSession
    /\ rerr' = nil
    /\ reses' = {}
    /\ IF rerr # nil
       THEN /\ MutualsFails(rerr)
            /\ UNCHANGED <<res, cmm>>
       ELSE /\ res' = reses
            /\ cmm' = matchCommand(QmList, "listPat")
            /\ pc' = "list_hdr"
            /\ UNCHANGED <<merr, mutualRecs, result>>
    /\ UNCHANGED <<world, children, nStarted, nReaped, hasAny, mutualIds, mi, tasks,
                   gerr, firstFail, ret>>

\* mutuals: "cmm.Scan() // skip first (header) line"
listHeaderScan ==
    /\ pc = "list_hdr"
    /\ \E env \in ScanEnvs(cmm) :
        LET r == cmdMatcherScan(cmm, env)
        IN  /\ cmm' = r.s
            /\ children' = Spawned(cmm, r.s)
            /\ nStarted' = Started(cmm, r.s)
    /\ pc' = "list_scan"
    /\ UNCHANGED <<world, result, rec, nReaped, reses, res, hasAny, rerr, mutualIds,
                   mutualRecs, merr, mi, tasks, gerr, firstFail, ret>>

\* variant: the listing's own line of the target is not skipped
isSelf_never(otherId, id) == FALSE

\* mutuals: "if otherId == id { continue }"
isSelf(otherId, id) == otherId = id

\* mutuals: "for cmm.Scan() {" up to the call of sharesHostResources
listScan ==
    /\ pc = "list_scan"
    /\ \E env \in ScanEnvs(cmm) :
        LET r == cmdMatcherScan(cmm, env)
            otherId == MatchText(r.s.match, 1)
        IN  /\ cmm' = r.s
            /\ children' = Spawned(cmm, r.s)
            /\ nStarted' = Started(cmm, r.s)
            /\ IF ~r.ok
               THEN /\ pc' = "list_err"
                    /\ rec' = rec
               ELSE IF isSelf(otherId, args[1])
               THEN /\ pc' = pc
                    /\ rec' = rec
               ELSE /\ pc' = "sh_scan"
                    /\ rec' = recognizeCommand(QmConfig(otherId), "keyValPat")
    /\ UNCHANGED <<world, result, nReaped, reses, res, hasAny, rerr, mutualIds,
                   mutualRecs, merr, mi, tasks, gerr, firstFail, ret>>

\* variant: any recognized label counts as shared
has_always(label, set) == TRUE

\* variant: no label counts as shared
has_never(label, set) == FALSE

\* sharesHostResources: "if _, has := reses[rec.Label()]; has"
has(label, set) == label \in set

\* variant: a shared label is noted and the scan goes on to the end
sharesHostResourcesScan_drain ==
    /\ pc = "sh_scan"
    /\ \E env \in ScanEnvs(rec) :
        LET r == cmdRecognizerScan(rec, env)
        IN  /\ rec' = r.s
            /\ children' = Spawned(rec, r.s)
            /\ nStarted' = Started(rec, r.s)
            /\ hasAny' = (hasAny \/ (r.ok /\ has(r.s.label, res)))
            /\ pc' = IF r.ok THEN pc ELSE "sh_cleanup"
    /\ UNCHANGED <<world, result, cmm, nReaped, reses, res, rerr, mutualIds, mutualRecs,
                   merr, mi, tasks, gerr, firstFail, ret>>

\* sharesHostResources: one turn of "for rec.Scan() {"
sharesHostResourcesScan ==
    /\ pc = "sh_scan"
    /\ \E env \in ScanEnvs(rec) :
        LET r == cmdRecognizerScan(rec, env)
        IN  /\ rec' = r.s
            /\ children' = Spawned(rec, r.s)
            /\ nStarted' = Started(rec, r.s)
            /\ IF r.ok /\ has(r.s.label, res)
               THEN /\ hasAny' = TRUE
                    /\ pc' = "sh_cleanup"
               ELSE IF r.ok
               THEN /\ hasAny' = hasAny
                    /\ pc' = pc
               ELSE /\ hasAny' = FALSE
                    /\ pc' = "sh_cleanup"
    /\ UNCHANGED <<world, result, cmm, nReaped, reses, res, rerr, mutualIds, mutualRecs,
                   merr, mi, tasks, gerr, firstFail, ret>>

\* sharesHostResources: either return runs the deferred rec.Cleanup(&rerr)
sharesHostResourcesCleanup ==
    /\ pc = "sh_cleanup"
    /\ \E outcome \in KillOutcomes(rec) :
        LET c == Cleanup(rec, nil, children, outcome)
        IN  /\ rec' = c.s
            /\ rerr' = c.errp
            /\ children' = c.kids
            /\ nReaped' = Reaped(rec)
    /\ pc' = "sh_ret"
    /\ UNCHANGED <<world, result, cmm, nStarted, reses, res, hasAny, mutualIds,
                   mutualRecs, merr, mi, tasks, gerr, firstFail, ret>>

\* variant: a new record goes to the front
appendMutual_front(recs, match) ==
    <<[id |-> MatchText(match, 1), name |-> MatchText(match, 2),
       status |-> MatchText(match, 3)]>> \o recs

\* mutuals: "mutualIds = append(mutualIds, listRec{otherId, otherName, otherStatus})"
appendMutual(recs, match) ==
    Append(recs, [id |-> MatchText(match, 1), name |-> MatchText(match, 2),
                  status |-> MatchText(match, 3)])

\* mutuals: "shares, err := sharesHostResources(otherId, res)" and the rest of the turn
sharesHostResourcesReturn ==
    /\ pc = "sh_ret"
    /\ rec' = NoSession
    /\ rerr' = nil
    /\ hasAny' = FALSE
    /\ IF rerr # nil
       THEN /\ MutualsFails(rerr)
            /\ mutualIds' = <<>>
       ELSE /\ mutualIds' = IF hasAny THEN appendMutual(mutualIds, cmm.match) ELSE mutualIds
            /\ pc' = "list_scan"
            /\ UNCHANGED <<merr, mutualRecs, result>>
    /\ UNCHANGED <<world, cmm, children, nStarted, nReaped, reses, res, mi, tasks, gerr,
                   firstFail, ret>>

\* mutuals: "if err = cmm.Err(); err != nil { return nil, err }; return mutualIds, nil"
listErr ==
    /\ pc = "list_err"
    /\ LET e == cmdScannerErr(cmm)
       IN  IF e.err # nil
           THEN /\ MutualsFails(e.err)
                /\ mutualIds' = <<>>
           ELSE /\ mutualRecs' = mutualIds
                /\ mutualIds' = <<>>
                /\ pc' = "spawn"
                /\ UNCHANGED <<merr, result>>
    /\ cmm' = NoSession
    /\ UNCHANGED <<world, rec, children, nStarted, nReaped, reses, res, hasAny, rerr, mi,
                   tasks, gerr, firstFail, ret>>

(***************************************************************************)
(* stopMutuals: the errgroup of shutdown goroutines.                       *)
(* A task: rec is the record it was started for, id the VM it shuts down,  *)
(* pc its position ("go": started, "cmd": its command runs, "ret":         *)
(* maybeRun has returned err, "done": the goroutine is over), runs the     *)
(* calls of maybeRun it made, cmds the external commands it started.       *)
(***************************************************************************)
\* "id := mutual.id", the id the goroutine started for record k closes over
taskId(recs, k) == recs[k].id

\* g.Go(func() error { return maybeRun("qm", "shutdown", id) })
NewTask(recs, k) ==
    [rec |-> k, id |-> taskId(recs, k), pc |-> "go", err |-> nil, runs |-> 0, cmds |-> 0]

\* variant: everything that is not stopped is shut down
shouldStop_notStopped(status) == status # stopped

\* "switch mutual.status": is a goroutine started for this status?
shouldStop(status) == status = running

\* stopMutuals: one turn of "for _, mutual := range mutualRecs", g.Wait() after the last
stopMutualsLoop ==
    /\ pc = "spawn"
    /\ IF mi < Len(mutualRecs)
       THEN /\ mi' = mi + 1
            /\ tasks' = IF shouldStop(mutualRecs[mi + 1].status)
                        THEN Append(tasks, NewTask(mutualRecs, mi + 1))
                        ELSE tasks
            /\ pc' = pc
       ELSE /\ pc' = "wait"
            /\ UNCHANGED <<mi, tasks>>
    /\ UNCHANGED <<world, result, rec, cmm, children, nStarted, nReaped, reses, res,
                   hasAny, rerr, mutualIds, mutualRecs, merr, gerr, firstFail, ret>>

\* variant: the dry-run flag is not looked at
suppressed_never(flag) == FALSE

\* maybeRun: "if dryRun { log.Printf(...); return nil }"
suppressed(flag) == flag

\* the error of a failed "qm shutdown <id>"
ShutdownFailed(id, why) == <<"qm shutdown">> \o id \o <<why>>

\* variant: a goroutine that finds an error recorded gives up without running
taskMaybeRun_cancelling(t) ==
    /\ tasks[t].pc = "go"
    /\ IF gerr # nil
       THEN tasks' = [tasks EXCEPT ![t].pc = "done"]
       ELSE \E ok \in BOOLEAN :
              tasks' = IF ok
                       THEN [tasks EXCEPT ![t].pc = "cmd", ![t].runs = @ + 1,
                                          ![t].cmds = @ + 1]
                       ELSE [tasks EXCEPT ![t].pc = "ret", ![t].runs = @ + 1,
                                          ![t].err = ShutdownFailed(tasks[t].id, "start failed")]
    /\ UNCHANGED <<world, pc, result, rec, cmm, children, nStarted, nReaped, reses, res,
                   hasAny, rerr, mutualIds, mutualRecs, merr, mi, gerr, firstFail, ret>>

\* maybeRun("qm", "shutdown", id) up to cmd.Run having started the command
taskMaybeRun(t) ==
    /\ tasks[t].pc = "go"
    /\ IF suppressed(dryRun)
       THEN tasks' = [tasks EXCEPT ![t].pc = "ret", ![t].runs = @ + 1]
       ELSE \E ok \in BOOLEAN :
              tasks' = IF ok
                       THEN [tasks EXCEPT ![t].pc = "cmd", ![t].runs = @ + 1,
                                          ![t].cmds = @ + 1]
                       ELSE [tasks EXCEPT ![t].pc = "ret", ![t].runs = @ + 1,
                                          ![t].err = ShutdownFailed(tasks[t].id, "start failed")]
    /\ UNCHANGED <<world, pc, result, rec, cmm, children, nStarted, nReaped, reses, res,
                   hasAny, rerr, mutualIds, mutualRecs, merr, mi, gerr, firstFail, ret>>

\* cmd.Run returns: the shutdown command has ended
taskCmdExit(t) ==
    /\ tasks[t].pc = "cmd"
    /\ \E status \in {"exit0", "exit1"} :
        tasks' = [tasks EXCEPT ![t].pc = "ret",
                               ![t].err = IF WaitError(status) = nil THEN nil
                                          ELSE ShutdownFailed(tasks[t].id, status)]
    /\ UNCHANGED <<world, pc, result, rec, cmm, children, nStarted, nReaped, reses, res,
                   hasAny, rerr, mutualIds, mutualRecs, merr, mi, gerr, firstFail, ret>>

\* variant: every error overwrites g.err
errOnce_last(old, err) == err

\* errgroup: "g.errOnce.Do(func() { g.err = err })"
errOnce(old, err) == IF old = nil THEN err ELSE old

\* errgroup.Go's goroutine once f has returned: record the error, then g.done()
taskReturn(t) ==
    /\ tasks[t].pc = "ret"
    /\ tasks' = [tasks EXCEPT ![t].pc = "done"]
    /\ gerr' = IF tasks[t].err # nil THEN errOnce(gerr, tasks[t].err) ELSE gerr
    /\ firstFail' = IF tasks[t].err # nil /\ firstFail = 0 THEN t ELSE firstFail
    /\ UNCHANGED <<world, pc, result, rec, cmm, children, nStarted, nReaped, reses, res,
                   hasAny, rerr, mutualIds, mutualRecs, merr, mi, ret>>

\* variant: Wait does not wait
waitDone_never(ts) == TRUE

\* errgroup.Wait: "g.wg.Wait()" lets the caller go on
waitDone(ts) == \A t \in 1..Len(ts) : ts[t].pc = "done"

\* stopMutuals: "return g.Wait()"
stopMutualsWait ==
    /\ pc = "wait"
    /\ waitDone(tasks)
    /\ result' = gerr
    /\ pc' = "exit"
    /\ UNCHANGED <<world, rec, cmm, children, nStarted, nReaped, reses, res, hasAny, rerr,
                   mutualIds, mutualRecs, merr, mi, tasks, gerr, firstFail, ret>>

Next ==
    \/ runHook
    \/ hostResourcesScan
    \/ hostResourcesCleanup
    \/ hostResourcesReturn
    \/ listHeaderScan
    \/ listScan
    \/ sharesHostResourcesScan
    \/ sharesHostResourcesCleanup
    \/ sharesHostResourcesReturn
    \/ listErr
    \/ stopMutualsLoop
    \/ \E t \in 1..Len(tasks) : taskMaybeRun(t)
    \/ \E t \in 1..Len(tasks) : taskCmdExit(t)
    \/ \E t \in 1..Len(tasks) : taskReturn(t)
    \/ stopMutualsWait

Spec == Init /\ [][Next]_vars

\* the hook on hosts whose listing may start or end in any way
ListInit == InitList /\ InitProg

ListSpec == ListInit /\ [][Next]_vars

(***************************************************************************)
(* One scan session used by a caller that makes any calls in any order:    *)
(* Scan at any of the three levels of the embedding, Err, and Cleanup with *)
(* the caller's error slot rerr.  ret keeps the last call: its name, the   *)
(* level of a Scan, what Scan returned (ok) or Err returned (err; for      *)
(* Cleanup the slot before the call), and the session before the call.     *)
(***************************************************************************)
\* keys and values of configuration lines, for the label rule
LabelKeys ==
    {<<"h", "o", "s", "t", "p", "c", "i", "0">>, <<"u", "s", "b", "0">>,
     <<"i", "d", "e", "2">>, <<"u", "s", "b", "h", "o", "s", "t", "p", "c", "i">>,
     <<"x", "u", "s", "b", "0">>}
LabelValues ==
    {<<"A">>, <<"A", ",", "x">>, <<"h", "o", "s", "t", "=", "U">>,
     <<"h", "o", "s", "t", "=", "U", ",", "x">>, <<"x", ",", "h", "o", "s", "t", "=", "U">>,
     <<"s", "p", "i", "c", "e">>, <<"x", "=", "h", "o", "s", "t">>,
     <<"g", "h", "o", "s", "t", "=", "U">>, <<"h", "o", "s", "t", "=", ",", "x">>}
LabelLines == {k \o <<":", " ">> \o v : k \in LabelKeys, v \in LabelValues}

\* the outputs of the session's command
SessionConfigs == Configs \cup {<<l>> : l \in LabelLines}

InitSession ==
    /\ PlainList
    /\ dryRun = FALSE
    /\ defined = {1}
    /\ vmStatus = [v \in VMs |-> stopped]
    /\ \E c \in SessionConfigs : vmConfig = [v \in VMs |-> IF v = 1 THEN c ELSE <<>>]
    /\ args = <<IdOf(1), preStart>>
    /\ pc = "session"
    /\ rec = recognizeCommand(QmConfig(IdOf(1)), "keyValPat")
    /\ rerr \in {nil, <<"earlier error">>}
    /\ ret = NoCall
    /\ result = notReturned
    /\ cmm = NoSession
    /\ children = {}
    /\ nStarted = 0
    /\ nReaped = 0
    /\ reses = {}
    /\ res = {}
    /\ hasAny = FALSE
    /\ mutualIds = <<>>
    /\ mutualRecs = <<>>
    /\ merr = nil
    /\ mi = 0
    /\ tasks = <<>>
    /\ gerr = nil
    /\ firstFail = 0

ScanLevels == {"scanner", "matcher", "recognizer"}

\* csc.Scan(), cmm.Scan() or cmr.Scan() on the session
sessionScan ==
    /\ pc = "session"
    /\ \E level \in ScanLevels, env \in ScanEnvs(rec) :
        LET r == CASE level = "scanner" -> cmdScannerScan(rec, env)
                   [] level = "matcher" -> cmdMatcherScan(rec, env)
                   [] level = "recognizer" -> cmdRecognizerScan(rec, env)
        IN  /\ rec' = r.s
            /\ children' = Spawned(rec, r.s)
            /\ nStarted' = Started(rec, r.s)
            /\ ret' = [call |-> "Scan", level |-> level, ok |-> r.ok, err |-> nil,
                       prev |-> rec]
    /\ UNCHANGED <<world, pc, result, cmm, nReaped, reses, res, hasAny, rerr, mutualIds,
                   mutualRecs, merr, mi, tasks, gerr, firstFail>>

\* csc.Err()
sessionErr ==
    /\ pc = "session"
    /\ LET e == cmdScannerErr(rec)
       IN  /\ rec' = e.s
           /\ ret' = [call |-> "Err", level |-> "scanner", ok |-> FALSE, err |-> e.err,
                      prev |-> rec]
    /\ UNCHANGED <<world, pc, result, cmm, children, nStarted, nReaped, reses, res, hasAny,
                   rerr, mutualIds, mutualRecs, merr, mi, tasks, gerr, firstFail>>

\* csc.Cleanup(&rerr)
sessionCleanup ==
    /\ pc = "session"
    /\ \E outcome \in KillOutcomes(rec) :
        LET c == Cleanup(rec, rerr, children, outcome)
        IN  /\ rec' = c.s
            /\ rerr' = c.errp
            /\ children' = c.kids
            /\ nReaped' = Reaped(rec)
            /\ ret' = [call |-> "Cleanup", level |-> "scanner", ok |-> FALSE, err |-> rerr,
                       prev |-> rec]
    /\ UNCHANGED <<world, pc, result, cmm, nStarted, reses, res, hasAny, mutualIds,
                   mutualRecs, merr, mi, tasks, gerr, firstFail>>

SessionNext == sessionScan \/ sessionErr \/ sessionCleanup

SessionSpec == InitSession /\ [][SessionNext]_vars

(***************************************************************************)
(* Vocabulary of the properties.                                           *)
(***************************************************************************)
\* the resource identity set of a configuration: the labels of its lines
LabelsOf(conf) ==
    {labelHostResource(keyValPat(conf[k])) : k \in 1..Len(conf)} \ {<<>>}

IdsOf(recs) == {recs[k].id : k \in 1..Len(recs)}

\* the hook was called to shut down the conflicts of args[1]
PreStartCall == Len(args) >= 2 /\ args[2] = preStart

\* mutuals(args[1]) has returned without error; mutualRecs is its result
MutualsOK == pc \in {"spawn", "wait"} \/ (pc = "exit" /\ PreStartCall /\ merr = nil)

\* mutuals(args[1]) has returned, with or without an error
MutualsReturned == pc \in {"spawn", "wait"} \/ (pc = "exit" /\ PreStartCall)

\* the listed VMs other than the target that share a label with it
Sharing(t) == {v \in defined \ {t} : LabelsOf(vmConfig[v]) \cap LabelsOf(vmConfig[t]) # {}}

\* C1: the result of mutuals(A), while it is built and once returned, never
\* holds a record whose id is A
C1_Irreflexive ==
    \A recs \in {mutualIds, mutualRecs} :
        \A k \in 1..Len(recs) : recs[k].id # args[1]

\* C1 witness: the target is listed, the whole listing was gone through and some
\* other VM was found to conflict with it
C1_Witness ==
    /\ PreStartCall /\ pc = "spawn"
    /\ VmOf(args[1]) \in defined
    /\ LabelsOf(vmConfig[VmOf(args[1])]) # {}
    /\ Len(mutualRecs) >= 1

\* C2: when mutuals(target) has returned without error, its records are those of
\* exactly the listed VMs, other than the target, that have a label in common with
\* the target's set; without labels of the target there are none
C2_MutualIffShared ==
    MutualsOK =>
        /\ IdsOf(mutualRecs) = {IdOf(v) : v \in Sharing(VmOf(args[1]))}
        /\ (LabelsOf(vmConfig[VmOf(args[1])]) = {} => mutualRecs = <<>>)

\* C2 witness: one listed VM shares a label with the target and is reported, and
\* another listed VM has labels, none of them shared, and is not
C2_Witness ==
    /\ MutualsOK
    /\ mutualRecs # <<>>
    /\ \E v \in defined \ {VmOf(args[1])} :
        /\ LabelsOf(vmConfig[v]) # {}
        /\ IdOf(v) \notin IdsOf(mutualRecs)

(***************************************************************************)
(* mutuals, hostResources and sharesHostResources as functions of the      *)
(* host's state: the same scans, when no command fails.                    *)
(***************************************************************************)
NoFault == [start |-> "ok", failAt |-> 0, pid |-> 1]

RECURSIVE hostResourcesFrom(_, _)
hostResourcesFrom(s, acc) ==
    LET r == cmdRecognizerScan(s, NoFault)
    IN  IF r.ok THEN hostResourcesFrom(r.s, acc \cup {r.s.label}) ELSE acc

hostResourcesOf(id) == hostResourcesFrom(recognizeCommand(QmConfig(id), "keyValPat"), {})

RECURSIVE sharesFrom(_, _)
sharesFrom(s, set) ==
    LET r == cmdRecognizerScan(s, NoFault)
    IN  IF ~r.ok THEN FALSE
        ELSE IF has(r.s.label, set) THEN TRUE
        ELSE sharesFrom(r.s, set)

sharesHostResourcesOf(id, set) == sharesFrom(recognizeCommand(QmConfig(id), "keyValPat"), set)

RECURSIVE mutualsFrom(_, _, _, _)
mutualsFrom(s, id, set, acc) ==
    LET r == cmdMatcherScan(s, NoFault)
        otherId == MatchText(r.s.match, 1)
    IN  IF ~r.ok THEN acc
        ELSE IF isSelf(otherId, id) THEN mutualsFrom(r.s, id, set, acc)
        ELSE IF sharesHostResourcesOf(otherId, set)
        THEN mutualsFrom(r.s, id, set, appendMutual(acc, r.s.match))
        ELSE mutualsFrom(r.s, id, set, acc)

mutualsOf(id) ==
    mutualsFrom(cmdMatcherScan(matchCommand(QmList, "listPat"), NoFault).s, id,
                hostResourcesOf(id), <<>>)

\* C3: symmetry.  For distinct listed VMs A and B that share a label, on the same
\* host state, B is in mutuals(A) and A is in mutuals(B) (A and B range over all
\* ordered pairs); and the mutuals the hook computes step by step is that function
\* of the host state
C3_Symmetric ==
    /\ pc = "runHook" =>
        \A a \in defined :
            LET found == IdsOf(mutualsOf(IdOf(a)))
            IN  \A b \in defined :
                    (a # b /\ LabelsOf(vmConfig[a]) \cap LabelsOf(vmConfig[b]) # {}) =>
                        IdOf(b) \in found
    /\ (pc = "spawn" /\ mi = 0) => mutualRecs = mutualsOf(args[1])

\* C3 witness: the hook has computed the mutuals of a target some listed VM shares
\* a label with, on a host where that VM's own mutuals hold the target
C3_Witness ==
    /\ pc = "spawn" /\ mi = 0
    /\ \E b \in Sharing(VmOf(args[1])) :
        /\ IdOf(b) \in IdsOf(mutualRecs)
        /\ args[1] \in IdsOf(mutualsOf(IdOf(b)))

\* C4: a shutdown request is a call maybeRun("qm", "shutdown", id).  Every request
\* is made for a record of the mutuals result whose status is "running", with that
\* record's id, at most once, by one goroutine per record; and once the loop is
\* over, every "running" record has its goroutine and no other record has one
C4_OneRequestPerRunning ==
    /\ \A t \in 1..Len(tasks) :
        /\ tasks[t].rec \in 1..mi
        /\ mutualRecs[tasks[t].rec].status = running
        /\ tasks[t].id = mutualRecs[tasks[t].rec].id
        /\ tasks[t].runs <= 1
        /\ tasks[t].cmds <= tasks[t].runs
        /\ \A u \in 1..Len(tasks) : tasks[u].rec = tasks[t].rec => u = t
    /\ (PreStartCall /\ merr = nil /\ pc \in {"wait", "exit"}) =>
        /\ \A k \in 1..Len(mutualRecs) :
            mutualRecs[k].status = running <=> \E t \in 1..Len(tasks) : tasks[t].rec = k
        /\ pc = "exit" => \A t \in 1..Len(tasks) : tasks[t].runs = 1

\* C4 witness: stopMutuals has returned after handling a mix of records:
\* one was running and got its request, another was not running and got none
C4_Witness ==
    /\ pc = "exit" /\ PreStartCall /\ merr = nil
    /\ \E k \in 1..Len(mutualRecs) : mutualRecs[k].status = running
    /\ \E k \in 1..Len(mutualRecs) : mutualRecs[k].status # running
    /\ \A t \in 1..Len(tasks) : tasks[t].runs = 1

\* one step of goroutine t
taskStep(t) == taskMaybeRun(t) \/ taskCmdExit(t) \/ taskReturn(t)

\* C5: a failed shutdown task cancels or skips no other: a goroutine that is over
\* has made its call of maybeRun, whatever its siblings did, and one that is not
\* over can always take its next step
C5_NoCancel ==
    \A t \in 1..Len(tasks) :
        /\ tasks[t].pc = "done" => tasks[t].runs = 1
        /\ tasks[t].pc # "done" => ENABLED taskStep(t)

\* C5 witness: a sibling's failure is recorded, and a goroutine that started only
\* then has run its command to its end
C5_Witness ==
    /\ gerr # nil
    /\ \E t \in 1..Len(tasks) :
        /\ t # firstFail
        /\ tasks[t].pc = "done" /\ tasks[t].cmds = 1 /\ tasks[t].err = nil

\* C6: the barrier.  Once stopMutuals has returned, no goroutine it started is
\* still in progress
C6_Barrier ==
    result # notReturned => \A t \in 1..Len(tasks) : tasks[t].pc = "done"

\* C6 witness: stopMutuals has returned after two goroutines, one that failed and
\* one that succeeded
C6_Witness ==
    /\ pc = "exit" /\ result # notReturned
    /\ \E t, u \in 1..Len(tasks) : tasks[t].err # nil /\ tasks[u].err = nil /\ tasks[u].cmds = 1

\* C7: when mutuals succeeded, stopMutuals returns an error exactly when a shutdown
\* task failed, and that error is the one of the task whose failure was recorded
\* first; without a task (stopped or unknown records only) it returns nil
C7_FirstErrorWins ==
    (pc = "exit" /\ PreStartCall /\ merr = nil) =>
        /\ result # nil <=> \E t \in 1..Len(tasks) : tasks[t].err # nil
        /\ result # nil => firstFail \in 1..Len(tasks) /\ result = tasks[firstFail].err
        /\ tasks = <<>> => result = nil

\* C7 witness: two tasks failed, the later-started one was recorded first and its
\* error is the one returned
C7_Witness ==
    /\ pc = "exit" /\ PreStartCall /\ merr = nil
    /\ Len(tasks) >= 2
    /\ tasks[1].err # nil /\ tasks[2].err # nil
    /\ firstFail = 2 /\ result = tasks[2].err

\* C8: with the dry-run flag set no external shutdown command is started, for any
\* record, and the shutdown stage yields no error; the config and list commands
\* are run all the same (one config per VM of the listing, and the list)
C8_DryRun ==
    dryRun =>
        /\ \A t \in 1..Len(tasks) : tasks[t].cmds = 0 /\ tasks[t].err = nil
        /\ gerr = nil
        /\ (pc = "exit" /\ PreStartCall /\ merr = nil) => result = nil
        /\ MutualsOK => nStarted = Cardinality(defined \cup {VmOf(args[1])}) + 1

\* C8 witness: a dry run that found two running mutuals and has returned
C8_Witness ==
    /\ dryRun /\ pc = "exit" /\ PreStartCall /\ merr = nil
    /\ Len(tasks) >= 2
    /\ \A t \in 1..Len(tasks) : tasks[t].runs = 1

\* C9: after Cleanup the session's command, when it was started, is reaped (no
\* longer a child, its wait status known); and Cleanup reports no error when the
\* command died of Cleanup's kill and nothing else went wrong
C9_CleanupAfterEarlyStop ==
    pc \in {"hr_ret", "sh_ret"} =>
        /\ rec.proc # 0 => rec.proc \notin children /\ rec.state # "none"
        /\ (rec.state = "killed" /\ rec.scanErr = nil) => rerr = nil /\ rec.err = nil

\* C9 witness: sharesHostResources stopped at a shared label with output left
\* unread, and its Cleanup killed the command
C9_Witness ==
    /\ pc = "sh_ret" /\ hasAny
    /\ ~rec.eof /\ rec.pos < NumLines(rec.cmd)
    /\ rec.state = "killed" /\ rec.proc \notin children

\* C10 (as claimed): when mutuals has returned, on the success path and on every
\* error path, every scan command it started has been reaped
C10_AllSessionsTornDown ==
    (pc \in {"spawn", "wait", "exit"}) => children = {} /\ nReaped = nStarted

C12_ListFailureNotSwallowed ==
    /\ (pc = "list_err" /\ (cmm.proc = 0 \/ cmm.scanErr # nil))
            => cmdScannerErr(cmm).err # nil
    /\ (MutualsReturned /\ listExit = "exit1") => merr # nil

\* the session holds one of the errors a Scan can run into: the pipe could not
\* be attached, the command could not be started, or a read failed
ScanFailed(s) == s.err \in {<<"pipe failed">>, <<"start failed">>} \/ s.scanErr # nil

\* C13: a failure of the line stream is sticky: once the session holds a pipe,
\* start or read error, every later Scan returns false and delivers nothing,
\* Err keeps returning that one error whatever is called, and the command is
\* not started (again)
C13_StickyFailure ==
    (ret.call # "none" /\ ScanFailed(ret.prev)) =>
        /\ cmdScannerErr(rec).err = cmdScannerErr(ret.prev).err
        /\ cmdScannerErr(rec).err # nil
        /\ rec.proc = ret.prev.proc
        /\ ret.call = "Scan" => (~ret.ok /\ rec.pos = ret.prev.pos)
        /\ ret.call = "Err" => ret.err = cmdScannerErr(ret.prev).err

\* C13 witness: Scan is called on a session whose start had failed, and on one
\* whose read had failed; here the first: it returns false and starts nothing
C13_Witness ==
    /\ ret.call = "Scan" /\ ret.prev.err = <<"start failed">>
    /\ ~ret.ok /\ nStarted = 0

\* C14: the command is not started when the session is made, nor by Err or
\* Cleanup; the first Scan starts it unless the pipe or the start fails; and
\* whatever is called, in whatever order, it is started at most once
C14_LazyStartOnce ==
    /\ nStarted <= 1
    /\ ret.call = "none" => (rec.proc = 0 /\ nStarted = 0)
    /\ ret.call \in {"Err", "Cleanup"} => rec.proc = ret.prev.proc
    /\ (ret.call = "Scan" /\ ret.prev.proc # 0) => rec.proc = ret.prev.proc
    /\ (ret.call = "Scan" /\ ret.prev.proc = 0 /\ rec.err = nil) => rec.proc # 0

\* C14 witness: the command was started by a Scan, reaped by Cleanup, and a
\* further Scan has not started it again
C14_Witness ==
    /\ ret.call = "Scan" /\ ret.prev.proc # 0 /\ ret.prev.state # "none"
    /\ nStarted = 1 /\ nReaped = 1

\* C15: Cleanup keeps the first error: an error pending on the session is what
\* Err returns afterwards, whatever the exit status; an error already in the
\* caller's slot stays; an empty slot receives the session's error
C15_CleanupKeepsFirstError ==
    ret.call = "Cleanup" =>
        LET pending == cmdScannerErr(ret.prev).err
        IN  /\ pending # nil => cmdScannerErr(rec).err = pending
            /\ rec.err # pending => pending = nil
            /\ ret.err # nil => rerr = ret.err
            /\ (ret.err = nil /\ rec.err # nil) => rerr = CommandFailed(rec.cmd, rec.err)
            /\ (ret.err = nil /\ rec.err = nil) => rerr = nil

\* C15 witness: Cleanup reaped a command that had ended with status 1 while a
\* read error was pending and the caller's slot was taken: both errors stay
C15_Witness ==
    /\ ret.call = "Cleanup" /\ ret.prev.scanErr # nil /\ ret.prev.state = "none"
    /\ rec.state = "exit1" /\ rec.err = <<"io error", "read error">>
    /\ ret.err # nil /\ rerr = ret.err

\* no scan command and no shutdown goroutine was ever started
NoExternal == nStarted = 0 /\ children = {} /\ tasks = <<>>

\* C16: hook dispatch: only a "pre-start" call runs the conflict finder and the
\* shutdowns; "post-start", "pre-stop" and "post-stop" start no command and
\* return nil; any other phase, and a call with fewer than two arguments,
\* start no command and return an error
C16_HookDispatch ==
    /\ (pc # "runHook" \/ ~NoExternal) => (pc = "exit" \/ PreStartCall)
    /\ (pc = "exit" /\ ~PreStartCall) =>
        /\ NoExternal
        /\ IF Len(args) < 2 THEN result = <<"usage">>
           ELSE IF args[2] \in {postStart, preStop, postStop} THEN result = nil
           ELSE result = <<"got unknown phase", args[2]>>

\* C16 witness: the hook was called with a phase it does not know and has
\* returned the error that names it, having started nothing
C16_Witness ==
    /\ pc = "exit" /\ Len(args) = 2 /\ args[2] = "bogus"
    /\ result = <<"got unknown phase", "bogus">> /\ NoExternal

\* the line of the listing output that reports the VM with this id
ListIndex(id) == 1 + Cardinality({u \in defined : u <= VmOf(id)})

\* C17: the records of mutuals, while gathered and once returned, stand in the
\* order of their lines in the listing output, no line has two records, and a
\* record holds the name and the status its line reports
C17_ListingOrder ==
    \A recs \in {mutualIds, mutualRecs} :
        /\ \A i, j \in 1..Len(recs) :
              i < j => ListIndex(recs[i].id) < ListIndex(recs[j].id)
        /\ \A i \in 1..Len(recs) :
              LET v == VmOf(recs[i].id)
              IN  recs[i].name = NameOf(v) /\ recs[i].status = vmStatus[v]

\* C17 witness: mutuals has returned the records of two lines, the earlier
\* line first
C17_Witness ==
    /\ MutualsOK /\ Len(mutualRecs) >= 2
    /\ ListIndex(mutualRecs[1].id) < ListIndex(mutualRecs[2].id)

RECURSIVE Pieces(_)
\* the parts of a value between its commas
Pieces(s) ==
    IF \E i \in 1..Len(s) : s[i] = ","
    THEN LET i == CHOOSE i \in 1..Len(s) : s[i] = "," /\ \A j \in 1..(i - 1) : s[j] # ","
         IN  <<SubSeq(s, 1, i - 1)>> \o Pieces(SubSeq(s, i + 1, Len(s)))
    ELSE <<s>>

\* the tokens of the host=<token> parts of a value, in their order
HostTokens(value) ==
    LET isHost(p) == Len(p) > Len(HostLit) /\ SubSeq(p, 1, Len(HostLit)) = HostLit
        hosts == SelectSeq(Pieces(value), isHost)
    IN  [i \in 1..Len(hosts) |-> SubSeq(hosts[i], Len(HostLit) + 1, Len(hosts[i]))]

\* the label rule in the words of its description
Classify(key, value) ==
    IF HasPrefix(key, hostpciPrefix) THEN hostpciLabel \o Pieces(value)[1]
    ELSE IF HasPrefix(key, usbPrefix)
    THEN (IF HostTokens(value) # <<>> THEN hostusbLabel \o HostTokens(value)[1] ELSE <<>>)
    ELSE <<>>

\* C18: the label of a matched "key: value" line: a key that begins with
\* hostpci gives "hostpci:" and the value up to its first comma; otherwise a
\* key that begins with usb gives "hostusb:" and the token of the value's
\* host=<token> part, and nothing when the value has no such part; any other
\* key gives nothing.  Key and value are the line's text before the colon and
\* after the colon and the blank
C18_LabelClassification ==
    (ret.call = "Scan" /\ ret.level # "scanner" /\ ret.ok) =>
        LET key == MatchText(rec.match, 1)
            value == MatchText(rec.match, 2)
        IN  /\ LineAt(rec.cmd, rec.pos) = key \o <<":", " ">> \o value
            /\ labelHostResource(rec.match) = Classify(key, value)
            /\ ret.level = "recognizer" => rec.label = Classify(key, value)

\* C18 witness: all three outcomes of the rule were met; here a usb line whose
\* host= part stands behind a comma has been recognized by its token
C18_Witness ==
    /\ ret.call = "Scan" /\ ret.level = "recognizer" /\ ret.ok
    /\ HasPrefix(MatchText(rec.match, 1), usbPrefix)
    /\ MatchText(rec.match, 2) = <<"x", ",", "h", "o", "s", "t", "=", "U">>
    /\ rec.label = hostusbLabel \o <<"U">>

\* what the recognizer makes of line k of the command's output
LabelAt(cmd, k) ==
    LET m == FindSubmatch("keyValPat", LineAt(cmd, k))
    IN  IF m = <<>> THEN <<>> ELSE labelHostResource(m)

\* C19: a Scan of the label recognizer returns true exactly when a line not
\* yet read gives a label, unless the stream fails first; it then stands at
\* the first such line and Label() is that line's label; when it returns
\* false Label() is empty and the stream has failed or is read to its end
C19_RecognizerScan ==
    (ret.call = "Scan" /\ ret.level = "recognizer") =>
        LET hits == {k \in (ret.prev.pos + 1)..NumLines(rec.cmd) : LabelAt(rec.cmd, k) # <<>>}
            failed == rec.err # nil \/ rec.scanErr # nil
        IN  /\ ret.ok => (/\ hits # {}
                          /\ rec.pos = Min(hits)
                          /\ rec.label = LabelAt(rec.cmd, rec.pos))
            /\ ~ret.ok => (/\ rec.label = <<>>
                           /\ failed \/ (rec.eof /\ rec.pos = NumLines(rec.cmd)))
            /\ (hits # {} /\ ~failed) => ret.ok

\* C19 witness: a Scan of the recognizer has passed over a line without a label
\* and stopped at the labelled line behind it
C19_Witness ==
    /\ ret.call = "Scan" /\ ret.level = "recognizer" /\ ret.ok
    /\ rec.pos = ret.prev.pos + 2
    /\ LabelAt(rec.cmd, rec.pos - 1) = <<>>
    /\ rec.label # <<>>

\* C20: the header skip of mutuals takes the first line of the listing and no
\* other, whether the record pattern matches that line or not: once mutuals
\* has returned without error, every later line that reports a VM other than
\* the target sharing a resource with it has its record
C20_HeaderSkip ==
    MutualsOK =>
        \A k \in 2..NumLines(QmList) :
            LET m == listPat(LineAt(QmList, k))
            IN  (/\ m # <<>>
                 /\ MatchText(m, 1) # args[1]
                 /\ VmOf(MatchText(m, 1)) \in Sharing(VmOf(args[1])))
                    => MatchText(m, 1) \in IdsOf(mutualRecs)

\* C21: sharesHostResources stops at the first line of the other VM's
\* configuration whose label is in the target's set and answers true; it reads
\* the configuration to its end only when no label is shared (or gives up on
\* a failure); and on either way out the session is cleaned up before the
\* function returns
C21_ShortCircuit ==
    pc \in {"sh_cleanup", "sh_ret"} =>
        LET shared == {k \in 1..NumLines(rec.cmd) : LabelAt(rec.cmd, k) \in res}
        IN  /\ hasAny => (/\ shared # {}
                          /\ rec.pos = Min(shared)
                          /\ rec.label = LabelAt(rec.cmd, rec.pos)
                          /\ ~rec.eof)
            /\ rec.eof => (shared = {} /\ rec.pos = NumLines(rec.cmd))
            /\ (~hasAny /\ ~ScanFailed(rec)) => rec.eof
            /\ pc = "sh_ret" =>
                  (rec.proc = 0 \/ (rec.state # "none" /\ rec.proc \notin children))

\* C21 witness: sharesHostResources is about to return true with a line of the
\* configuration left unread, its command killed and reaped
C21_Witness ==
    /\ pc = "sh_ret" /\ hasAny /\ rerr = nil
    /\ rec.pos < NumLines(rec.cmd)
    /\ rec.state = "killed" /\ children \subseteq {cmm.proc}

\* the started, not yet reaped commands other than that of the list matcher
ConfigChildren == children \ {cmm.proc}

\* C22: the configuration queries of mutuals run one at a time: while mutuals
\* runs, at most one "qm config" command is started and not reaped, and it is
\* the command of the session in hand; none is left when the loop goes on to
\* the next line of the listing, when a query has returned, or when the next
\* query's session is made and not yet started; and once mutuals has returned
\* no second command is left beside what the listing left behind
C22_OneConfigAtATime ==
    /\ pc \in {"hr_scan", "hr_cleanup", "hr_ret", "list_hdr", "list_scan",
               "sh_scan", "sh_cleanup", "sh_ret", "list_err"} =>
          /\ Cardinality(ConfigChildren) <= 1
          /\ ConfigChildren \subseteq {rec.proc}
          /\ pc \in {"hr_ret", "list_hdr", "list_scan", "sh_ret", "list_err"} =>
                ConfigChildren = {}
          /\ rec.proc = 0 => ConfigChildren = {}
    /\ pc \in {"spawn", "wait", "exit"} => Cardinality(children) <= 1

\* C22 witness: the configuration query for a second listed VM runs, after the
\* target's own query and the first listed VM's query were started and reaped
C22_Witness ==
    /\ pc = "sh_scan" /\ rec.proc \in children /\ cmm.proc \in children
    /\ nStarted = 4 /\ nReaped = 2
    /\ ConfigChildren = {rec.proc}

\* C23: when mutuals has returned an error, stopMutuals has returned that very
\* error, no record of mutuals is left to act on and no shutdown goroutine was
\* ever started; and no shutdown goroutine exists before mutuals has returned
C23_FailSafe ==
    /\ merr # nil => (/\ pc = "exit" /\ result = merr
                      /\ mutualRecs = <<>> /\ tasks = <<>> /\ mi = 0)
    /\ pc \notin {"spawn", "wait", "exit"} => tasks = <<>>

\* C23 witness: the query for a second listed VM b failed after the query for
\* an earlier listed, running VM a that shares a label with the target had
\* been made; the hook is over with that error and without any shutdown
C23_Witness ==
    /\ pc = "exit" /\ PreStartCall /\ merr # nil /\ result = merr
    /\ tasks = <<>> /\ nStarted = 4
    /\ \E a, b \in defined \ {VmOf(args[1])} :
          /\ a < b /\ vmStatus[a] = running
          /\ LabelsOf(vmConfig[a]) \cap LabelsOf(vmConfig[VmOf(args[1])]) # {}
          /\ Len(merr) >= 2 + Len(IdOf(b))
          /\ SubSeq(merr, 1, 2 + Len(IdOf(b))) = CommandFailed(QmConfig(IdOf(b)), nil)

====
